---- MODULE Spec2Model ----
(***************************************************************************)
(* Model of the agent bridge core:                                         *)
(*   - runCommandStreaming   (src/src/process/exec-streaming.ts)           *)
(*   - StreamJsonAccumulator (src/src/agents/cli-runner/                   *)
(*                            stream-json-parser.ts)                       *)
(*   - the per-key run serializer used by runClaudeCliAgent (its source    *)
(*     is not part of src/; modelled from spec.md section 4.2)             *)
(*   - subscribeEmbeddedPiSession (src/src/agents/                         *)
(*                            pi-embedded-subscribe.ts)                    *)
(* Each component has its own specification; the variables of the other    *)
(* components stay at their initial values.                                *)
(***************************************************************************)
EXTENDS Integers, Sequences, FiniteSets, TLC

\* ------------------------------------------------------------------------
\* Bounds of the model
\* ------------------------------------------------------------------------
MaxBytes == 4          \* bytes the child writes to stdout in one run
MaxChunk == 2          \* bytes in one 'data' chunk
MaxErrorEvents == 1    \* 'error' events the child emits in one run
MaxOps == 4            \* operations handed to runExclusive
MaxLines == 3          \* lines one accumulator consumes
MaxMessages == 2       \* messages the session streams in one run
MaxDeltas == 2         \* message_update events of one run
MaxToolEvents == 3     \* tool and run-end events of one run

VARIABLES
  \* --- runCommandStreaming ---
  childState,      \* "running" | "failed" (spawn failed) | "exited" | "closed"
  settled,         \* let settled
  lineBuffer,      \* let lineBuffer (decoded characters)
  timer,           \* "pending" | "fired" | "cleared"
  killed,          \* child.killed
  outcome,         \* state of the returned promise
  result,          \* value the promise was resolved with
  lines,           \* arguments of the onStdoutLine calls, in order
  allBytes,        \* every byte the child wrote to stdout, in order
  exitCode,        \* << >> for null, <<n>> for exit code n
  exitSignal,      \* "null" or the terminating signal
  killsSent,       \* SIGKILL signals delivered to the child
  settleCount,     \* calls of resolve or reject
  flushCount,      \* flushes of lineBuffer by the close handler
  errorEvents,     \* 'error' events emitted so far
  firstTerminal,   \* first of 'error' / 'close' that was emitted
  aliveAtTimeout,  \* the timer callback ran while the child was running
  \* --- the run serializer (runExclusive) ---
  queues,          \* key -> operations submitted and not yet completed, in order
  opState,         \* operation -> "idle" | "queued" | "running" | "done"
  opKey,           \* operation -> the key it was submitted for
  opOutcome,       \* operation -> "none" | "ok" | "throw": what the operation did
  callerResult,    \* operation -> "none" | "ok" | "throw": what its caller got
  submitOrder,     \* key -> operations in the order they were submitted
  startOrder,      \* key -> operations in the order they started
  \* --- StreamJsonAccumulator ---
  sessionId,       \* this.sessionId (a JSON value: undefined or a string)
  resultText,      \* this.resultText
  usage,           \* this.usage (undefined or {input, output})
  toolNameById,    \* this.toolNameById
  calls,           \* the observer calls made so far, in order
  threw,           \* the last handleLine call raised an exception
  consumed,        \* the lines handed to handleLine so far, in order
  \* --- subscribeEmbeddedPiSession ---
  params,          \* the params the bridge was attached with
  assistantTexts,  \* const assistantTexts
  toolMetas,       \* const toolMetas
  toolMetaById,    \* const toolMetaById
  deltaBuffer,     \* let deltaBuffer (characters)
  lastStreamedAssistant, \* let lastStreamedAssistant (undefined or a string)
  pendingTools,    \* the (toolName, meta) pairs the debouncer holds
  flushTimer,      \* the debouncer's timer: "none" | "pending"
  telemetry,       \* the emitAgentEvent calls, in order
  agentEvents,     \* the params.onAgentEvent calls, in order
  partialReplies,  \* the params.onPartialReply calls, in order
  toolResults,     \* the params.onToolResult calls, in order
  handlerThrew,    \* an exception left the subscribed event handler
  curMsg,          \* the message the session is streaming, or NoMessage
  fed,             \* characters of curMsg delivered in message_update events
  msgCount,        \* messages started so far
  deltaCount,      \* message_update events so far
  toolEvents,      \* tool and run-end events so far
  shown,           \* positions of curMsg delivered in an assistant emission
  endedMsgs,       \* the messages whose message_end was handled, in order
  freshLast        \* lastStreamedAssistant of a bridge attached when curMsg began

execVars == <<childState, settled, lineBuffer, timer, killed, outcome, result,
              lines, allBytes, exitCode, exitSignal, killsSent, settleCount,
              flushCount, errorEvents, firstTerminal, aliveAtTimeout>>

serVars == <<queues, opState, opKey, opOutcome, callerResult, submitOrder,
             startOrder>>

accVars == <<sessionId, resultText, usage, toolNameById, calls, threw, consumed>>

bridgeVars == <<params, assistantTexts, toolMetas, toolMetaById, deltaBuffer,
                lastStreamedAssistant, pendingTools, flushTimer, telemetry,
                agentEvents, partialReplies, toolResults, handlerThrew, curMsg,
                fed, msgCount, deltaCount, toolEvents, shown, endedMsgs,
                freshLast>>

vars == <<execVars, serVars, accVars, bridgeVars>>

\* What the actions of one component leave alone.
notExec == <<serVars, accVars, bridgeVars>>
notSer == <<execVars, accVars, bridgeVars>>
notAcc == <<execVars, serVars, bridgeVars>>
notBridge == <<execVars, serVars, accVars>>

\* ------------------------------------------------------------------------
\* Bytes and characters
\* ------------------------------------------------------------------------
\* Bytes the child can write: an ASCII letter, the newline, and the two
\* bytes 0xC3 0xA9 of the UTF-8 encoding of U+00E9.
Bytes == {"a", "\n", "C3", "A9"}

\* Buffer.prototype.toString(): UTF-8 decoding of one chunk on its own.  A
\* lead byte without its continuation byte, and a continuation byte without
\* its lead byte, each decode to U+FFFD.
RECURSIVE Utf8Decode(_)
Utf8Decode(b) ==
  IF b = << >> THEN << >>
  ELSE IF Head(b) = "C3"
    THEN IF Len(b) >= 2 /\ b[2] = "A9"
           THEN <<"U+00E9">> \o Utf8Decode(SubSeq(b, 3, Len(b)))
           ELSE <<"U+FFFD">> \o Utf8Decode(Tail(b))
  ELSE IF Head(b) = "A9"
    THEN <<"U+FFFD">> \o Utf8Decode(Tail(b))
  ELSE <<Head(b)>> \o Utf8Decode(Tail(b))

\* String.prototype.indexOf("\n"): 1-based here, 0 when absent.
RECURSIVE IndexOfNewlineFrom(_, _)
IndexOfNewlineFrom(s, i) ==
  IF i > Len(s) THEN 0
  ELSE IF s[i] = "\n" THEN i
  ELSE IndexOfNewlineFrom(s, i + 1)

IndexOfNewline(s) == IndexOfNewlineFrom(s, 1)

\* The while loop of the stdout 'data' handler: returns the lines handed to
\* onStdoutLine and what is left in lineBuffer.
RECURSIVE DrainLines(_, _)
DrainLines(buf, out) ==
  LET newlineIdx == IndexOfNewline(buf) IN
  IF newlineIdx = 0 THEN [rest |-> buf, delivered |-> out]
  ELSE LET line == SubSeq(buf, 1, newlineIdx - 1)
           rest == SubSeq(buf, newlineIdx + 1, Len(buf))
       IN DrainLines(rest, IF Len(line) > 0 THEN Append(out, line) ELSE out)

\* Chunks of at most n bytes.
RECURSIVE SeqsUpTo(_, _)
SeqsUpTo(S, n) ==
  IF n = 0 THEN {<< >>}
  ELSE LET shorter == SeqsUpTo(S, n - 1)
       IN shorter \cup {Append(s, x) : s \in {t \in shorter : Len(t) = n - 1}, x \in S}

Chunks == SeqsUpTo(Bytes, MaxChunk) \ {<< >>}

\* ------------------------------------------------------------------------
\* runCommandStreaming
\* ------------------------------------------------------------------------
ExecInit ==
  /\ childState \in {"running", "failed"}
  /\ settled = FALSE
  /\ lineBuffer = << >>
  /\ timer = "pending"
  /\ killed = FALSE
  /\ outcome = "pending"
  /\ result = [set |-> FALSE]
  /\ lines = << >>
  /\ allBytes = << >>
  /\ exitCode = << >>
  /\ exitSignal = "null"
  /\ killsSent = 0
  /\ settleCount = 0
  /\ flushCount = 0
  /\ errorEvents = 0
  /\ firstTerminal = "none"
  /\ aliveAtTimeout = FALSE

clearTimeout(t) == IF t = "pending" THEN "cleared" ELSE t

\* child.stdout 'data' handler
StdoutData(chunk) ==
  /\ UNCHANGED notExec
  /\ childState \in {"running", "exited"}
  /\ Len(allBytes) + Len(chunk) <= MaxBytes
  /\ LET d == DrainLines(lineBuffer \o Utf8Decode(chunk), << >>) IN
       /\ lineBuffer' = d.rest
       /\ lines' = lines \o d.delivered
  /\ allBytes' = allBytes \o chunk
  /\ UNCHANGED <<childState, settled, timer, killed, outcome, result, exitCode,
                 exitSignal, killsSent, settleCount, flushCount, errorEvents,
                 firstTerminal, aliveAtTimeout>>

\* The child terminates by itself, with an exit code or by a signal that
\* somebody else sent.
ChildExit(code, signal) ==
  /\ UNCHANGED notExec
  /\ childState = "running"
  /\ childState' = "exited"
  /\ exitCode' = code
  /\ exitSignal' = signal
  /\ UNCHANGED <<settled, lineBuffer, timer, killed, outcome, result, lines,
                 allBytes, killsSent, settleCount, flushCount, errorEvents,
                 firstTerminal, aliveAtTimeout>>

\* A timer callback that lets the timeout pass without killing the child.
TimerFire_NoKill ==
  /\ UNCHANGED notExec
  /\ timer = "pending"
  /\ timer' = "fired"
  /\ aliveAtTimeout' = (childState = "running")
  /\ UNCHANGED <<killed, killsSent, childState, exitCode, exitSignal, settled,
                 lineBuffer, outcome, result, lines, allBytes, settleCount,
                 flushCount, errorEvents, firstTerminal>>

\* The setTimeout callback: child.kill("SIGKILL").  kill() delivers the
\* signal and sets child.killed only while the child process exists.
TimerFire ==
  /\ UNCHANGED notExec
  /\ timer = "pending"
  /\ timer' = "fired"
  /\ IF childState = "running"
       THEN /\ killed' = TRUE
            /\ killsSent' = killsSent + 1
            /\ childState' = "exited"
            /\ exitCode' = << >>
            /\ exitSignal' = "SIGKILL"
            /\ aliveAtTimeout' = TRUE
       ELSE UNCHANGED <<killed, killsSent, childState, exitCode, exitSignal,
                        aliveAtTimeout>>
  /\ UNCHANGED <<settled, lineBuffer, outcome, result, lines, allBytes,
                 settleCount, flushCount, errorEvents, firstTerminal>>

\* An 'error' handler that does not look at the settled flag.
OnError_NoGuard ==
  /\ settled' = TRUE
  /\ timer' = clearTimeout(timer)
  /\ outcome' = "rejected"
  /\ settleCount' = settleCount + 1

\* child 'error' handler
OnError ==
  IF settled
    THEN UNCHANGED <<settled, timer, outcome, settleCount>>
    ELSE /\ settled' = TRUE
         /\ timer' = clearTimeout(timer)
         /\ outcome' = "rejected"
         /\ settleCount' = settleCount + 1

\* The child emits 'error': the spawn failed, or the runtime reports another
\* failure of the child at a later point (the child could not be killed).
ErrorEvent ==
  /\ UNCHANGED notExec
  /\ errorEvents < MaxErrorEvents
  /\ errorEvents' = errorEvents + 1
  /\ firstTerminal' = IF firstTerminal = "none" THEN "error" ELSE firstTerminal
  /\ OnError
  /\ UNCHANGED <<childState, lineBuffer, killed, result, lines, allBytes,
                 exitCode, exitSignal, killsSent, flushCount, aliveAtTimeout>>

\* child 'close' handler
OnClose ==
  IF settled
    THEN UNCHANGED <<settled, timer, outcome, result, settleCount, lineBuffer,
                     lines, flushCount>>
    ELSE /\ settled' = TRUE
         /\ timer' = clearTimeout(timer)
         /\ IF Len(lineBuffer) > 0
              THEN /\ lines' = Append(lines, lineBuffer)
                   /\ lineBuffer' = << >>
                   /\ flushCount' = flushCount + 1
              ELSE UNCHANGED <<lines, lineBuffer, flushCount>>
         /\ outcome' = "resolved"
         /\ result' = [set |-> TRUE, code |-> exitCode, signal |-> exitSignal,
                       killed |-> killed]
         /\ settleCount' = settleCount + 1

\* The child emits 'close': its stdio streams have ended after the exit, or
\* after the 'error' of a failed spawn.
CloseEvent ==
  /\ UNCHANGED notExec
  /\ \/ childState = "exited"
     \/ childState = "failed" /\ errorEvents >= 1
  /\ childState' = "closed"
  /\ firstTerminal' = IF firstTerminal = "none" THEN "close" ELSE firstTerminal
  /\ OnClose
  /\ UNCHANGED <<killed, allBytes, exitCode, exitSignal, killsSent, errorEvents,
                 aliveAtTimeout>>

ExitCodes == {<<0>>, <<42>>}

ExecNext ==
  \/ \E chunk \in Chunks : StdoutData(chunk)
  \/ \E code \in ExitCodes : ChildExit(code, "null")
  \/ ChildExit(<< >>, "SIGTERM")
  \/ TimerFire
  \/ ErrorEvent
  \/ CloseEvent

\* ------------------------------------------------------------------------
\* The run serializer: runExclusive(key, operation)
\* ------------------------------------------------------------------------
Keys == {"/tmp/session.jsonl", "/tmp/other.jsonl"}
Ops == 1..MaxOps

SerInit ==
  /\ queues = [k \in Keys |-> << >>]
  /\ opState = [o \in Ops |-> "idle"]
  /\ opKey = [o \in Ops |-> "none"]
  /\ opOutcome = [o \in Ops |-> "none"]
  /\ callerResult = [o \in Ops |-> "none"]
  /\ submitOrder = [k \in Keys |-> << >>]
  /\ startOrder = [k \in Keys |-> << >>]

Remove(q, op) == SelectSeq(q, LAMBDA x : x # op)

\* runExclusive(key, op): the operation is appended to the key's queue.
\* Operations are numbered in the order of their submission.
RunExclusive(key, op) ==
  /\ UNCHANGED notSer
  /\ opState[op] = "idle"
  /\ \A p \in Ops : p < op => opState[p] # "idle"
  /\ opState' = [opState EXCEPT ![op] = "queued"]
  /\ opKey' = [opKey EXCEPT ![op] = key]
  /\ queues' = [queues EXCEPT ![key] = Append(@, op)]
  /\ submitOrder' = [submitOrder EXCEPT ![key] = Append(@, op)]
  /\ UNCHANGED <<opOutcome, callerResult, startOrder>>

\* A serializer that starts an operation as soon as it is submitted.
StartOperation_NoWait(op) ==
  /\ UNCHANGED notSer
  /\ opState[op] = "queued"
  /\ opState' = [opState EXCEPT ![op] = "running"]
  /\ startOrder' = [startOrder EXCEPT ![opKey[op]] = Append(@, op)]
  /\ UNCHANGED <<queues, opKey, opOutcome, callerResult, submitOrder>>

\* A serializer that grants the free slot to any waiting operation of the key.
StartOperation_AnyWaiting(op) ==
  /\ UNCHANGED notSer
  /\ opState[op] = "queued"
  /\ \A p \in Ops : opKey[p] = opKey[op] => opState[p] # "running"
  /\ opState' = [opState EXCEPT ![op] = "running"]
  /\ startOrder' = [startOrder EXCEPT ![opKey[op]] = Append(@, op)]
  /\ UNCHANGED <<queues, opKey, opOutcome, callerResult, submitOrder>>

\* A serializer whose chain does not catch the failure of the previous
\* operation: the operation queued behind a failed one is rejected unrun.
StartOperation_Poisoned(op) ==
  /\ UNCHANGED notSer
  /\ opState[op] = "queued"
  /\ Head(queues[opKey[op]]) = op
  /\ LET before == {p \in Ops : p < op /\ opKey[p] = opKey[op]} IN
     IF \E p \in before : callerResult[p] = "throw"
       THEN /\ opState' = [opState EXCEPT ![op] = "done"]
            /\ callerResult' = [callerResult EXCEPT ![op] = "throw"]
            /\ queues' = [queues EXCEPT ![opKey[op]] = Remove(@, op)]
            /\ UNCHANGED startOrder
       ELSE /\ opState' = [opState EXCEPT ![op] = "running"]
            /\ startOrder' = [startOrder EXCEPT ![opKey[op]] = Append(@, op)]
            /\ UNCHANGED <<queues, callerResult>>
  /\ UNCHANGED <<opKey, opOutcome, submitOrder>>

\* A serializer with one slot for all keys together.
StartOperation_GlobalLock(op) ==
  /\ UNCHANGED notSer
  /\ opState[op] = "queued"
  /\ Head(queues[opKey[op]]) = op
  /\ \A p \in Ops : opState[p] # "running"
  /\ opState' = [opState EXCEPT ![op] = "running"]
  /\ startOrder' = [startOrder EXCEPT ![opKey[op]] = Append(@, op)]
  /\ UNCHANGED <<queues, opKey, opOutcome, callerResult, submitOrder>>

\* The operation at the head of its key's queue begins: every operation
\* queued before it for that key has completed.
StartOperation(op) ==
  /\ UNCHANGED notSer
  /\ opState[op] = "queued"
  /\ Head(queues[opKey[op]]) = op
  /\ opState' = [opState EXCEPT ![op] = "running"]
  /\ startOrder' = [startOrder EXCEPT ![opKey[op]] = Append(@, op)]
  /\ UNCHANGED <<queues, opKey, opOutcome, callerResult, submitOrder>>

\* The running operation completes, by returning or by throwing: its caller
\* gets that result and the operation leaves the key's queue.
OperationSettles(op, how) ==
  /\ UNCHANGED notSer
  /\ opState[op] = "running"
  /\ opState' = [opState EXCEPT ![op] = "done"]
  /\ opOutcome' = [opOutcome EXCEPT ![op] = how]
  /\ callerResult' = [callerResult EXCEPT ![op] = how]
  /\ queues' = [queues EXCEPT ![opKey[op]] = Remove(@, op)]
  /\ UNCHANGED <<opKey, submitOrder, startOrder>>

SerNext ==
  \/ \E key \in Keys, op \in Ops : RunExclusive(key, op)
  \/ \E op \in Ops : StartOperation(op)
  \/ \E op \in Ops : OperationSettles(op, "ok")
  \/ \E op \in Ops : OperationSettles(op, "throw")

\* ------------------------------------------------------------------------
\* JSON values, as JSON.parse returns them
\* ------------------------------------------------------------------------
Undef == [k |-> "undefined"]
Null == [k |-> "null"]
Str(s) == [k |-> "string", s |-> s]
Num(n) == [k |-> "number", n |-> n]
Bool(b) == [k |-> "boolean", b |-> b]
Arr(items) == [k |-> "array", items |-> items]
Obj(f) == [k |-> "object", f |-> f]

\* typeof v
TypeOf(v) ==
  IF v.k \in {"null", "array", "object"} THEN "object" ELSE v.k

\* v.name for a v that is neither null nor undefined
Get(v, name) ==
  IF v.k = "object" /\ name \in DOMAIN v.f THEN v.f[name] ELSE Undef

\* v?.name
OptGet(v, name) ==
  IF v.k \in {"null", "undefined"} THEN Undef ELSE Get(v, name)

\* a ?? b
Coalesce(a, b) == IF a.k \in {"null", "undefined"} THEN b ELSE a

\* the truthiness of v
Truthy(v) ==
  CASE v.k \in {"null", "undefined"} -> FALSE
    [] v.k = "string" -> v.s # ""
    [] v.k = "number" -> v.n # 0
    [] v.k = "boolean" -> v.b
    [] OTHER -> TRUE

\* JSON.stringify(v), for the values the lines below carry: an object is
\* written with its fields in the order of FieldOrder.
FieldOrder == <<"a", "b">>

RECURSIVE Stringify(_)
RECURSIVE StringifyItems(_)
RECURSIVE StringifyFields(_, _)
Stringify(v) ==
  CASE v.k = "string" -> "\"" \o v.s \o "\""
    [] v.k = "number" -> ToString(v.n)
    [] v.k = "boolean" -> IF v.b THEN "true" ELSE "false"
    [] v.k = "null" -> "null"
    [] v.k = "array" -> "[" \o StringifyItems(v.items) \o "]"
    [] v.k = "object" -> "{" \o StringifyFields(v.f, FieldOrder) \o "}"

StringifyItems(items) ==
  IF items = << >> THEN ""
  ELSE Stringify(Head(items))
         \o (IF Len(items) > 1 THEN "," ELSE "")
         \o StringifyItems(Tail(items))

StringifyFields(f, names) ==
  IF names = << >> THEN ""
  ELSE LET rest == StringifyFields(f, Tail(names)) IN
       IF Head(names) \in DOMAIN f
         THEN "\"" \o Head(names) \o "\":" \o Stringify(f[Head(names)])
                \o (IF rest = "" THEN "" ELSE ",") \o rest
         ELSE rest

\* ------------------------------------------------------------------------
\* Lines of the stream-json protocol
\* ------------------------------------------------------------------------
\* A line is either a text that is not JSON, or the JSON text of a value.
Text(t) == [json |-> FALSE, text |-> t]
Json(v) == [json |-> TRUE, value |-> v]

MalformedLines == {Text("not json at all"), Text("{broken json"), Text("")}

NonObjectLines == {Json(Null), Json(Num(5)), Json(Arr(<< >>))}

UnknownTypeLines ==
  {Json(Obj([type |-> Str("unknown_event"), data |-> Str("something"),
             session_id |-> Str("sess-x"), result |-> Str("ignored")]))}

SystemLines == {Json(Obj([type |-> Str("system"), session_id |-> Str("sess-1")]))}

AssistantLines ==
  {Json(Obj([type |-> Str("assistant"),
             message |-> Obj([content |-> Arr(<<
               Obj([type |-> Str("text"), text |-> Str("partial")]) >>)])])),
   Json(Obj([type |-> Str("assistant"),
             message |-> Obj([content |-> Arr(<<
               Obj([type |-> Str("image"), source |-> Obj(<< >>)]),
               Obj([type |-> Str("text"), text |-> Str("Hello ")]),
               Null,
               Obj([type |-> Str("text"), text |-> Str("")]),
               Obj([type |-> Str("text"), text |-> Str("world")]) >>)])]))}

ToolUseLines ==
  {Json(Obj([type |-> Str("tool_use"), tool_use_id |-> Str("tu-1"),
             name |-> Str("Read"), input |-> Obj([a |-> Num(1)])]))}

ToolResultLines ==
  {Json(Obj([type |-> Str("tool_result"), tool_use_id |-> Str("tu-1"),
             content |-> Str("file contents here")]))}

ResultLines ==
  {Json(Obj([type |-> Str("result"), result |-> Str("final"),
             session_id |-> Str("sess-2"),
             usage |-> Obj([input_tokens |-> Num(200),
                            output_tokens |-> Num(100)])])),
   Json(Obj([type |-> Str("result"), result |-> Str("Final answer.")])),
   Json(Obj([type |-> Str("result"), result |-> Str("")])),
   Json(Obj([type |-> Str("result"),
             usage |-> Obj([input |-> Num(1), output |-> Num(2)])]))}

Lines ==
  MalformedLines \cup NonObjectLines \cup UnknownTypeLines \cup SystemLines
    \cup AssistantLines \cup ToolUseLines \cup ToolResultLines \cup ResultLines

\* tool_use events with and without a call id and a tool name.
ToolUseEventLines ==
  ToolUseLines \cup
  {Json(Obj([type |-> Str("tool_use"), tool_use_id |-> Str("tu-1"),
             name |-> Str("Write")])),
   Json(Obj([type |-> Str("tool_use"), tool_use_id |-> Str("tu-2"),
             args |-> Obj([b |-> Bool(TRUE)])])),
   Json(Obj([type |-> Str("tool_use"), name |-> Str("Bash")]))}

\* tool_result events: the payload in content, in output, in both, in none.
ToolResultEventLines ==
  ToolResultLines \cup
  {Json(Obj([type |-> Str("tool_result"), tool_use_id |-> Str("tu-2"),
             is_error |-> Bool(TRUE), output |-> Str("Permission denied")])),
   Json(Obj([type |-> Str("tool_result"), tool_use_id |-> Str("tu-3"),
             content |-> Obj([a |-> Num(1)])])),
   Json(Obj([type |-> Str("tool_result"),
             output |-> Arr(<<Num(1), Str("x")>>)])),
   Json(Obj([type |-> Str("tool_result"), tool_use_id |-> Str("tu-1"),
             content |-> Null, output |-> Obj([b |-> Bool(TRUE)])])),
   Json(Obj([type |-> Str("tool_result"), tool_use_id |-> Str("tu-1"),
             content |-> Num(5), output |-> Str("text")])),
   Json(Obj([type |-> Str("tool_result"), tool_use_id |-> Str("tu-1"),
             content |-> Str("c"), output |-> Str("o")])),
   Json(Obj([type |-> Str("tool_result"), tool_use_id |-> Str("tu-1")]))}

\* result events with the usage counts under either name, and without a
\* usage object.
UsageLines ==
  ResultLines \cup
  {Json(Obj([type |-> Str("result"),
             usage |-> Obj([input_tokens |-> Num(3), input |-> Num(4),
                            output |-> Num(5)])])),
   Json(Obj([type |-> Str("result"),
             usage |-> Obj([input_tokens |-> Null, input |-> Num(7),
                            output_tokens |-> Num(0), output |-> Num(9)])])),
   Json(Obj([type |-> Str("result"), usage |-> Obj(<< >>)])),
   Json(Obj([type |-> Str("result"), usage |-> Null])),
   Json(Obj([type |-> Str("result"), usage |-> Str("none")]))}

EventDetailLines == ToolUseEventLines \cup ToolResultEventLines \cup UsageLines

\* JSON.parse(line): a value, or a SyntaxError.
JSONParse(line) ==
  IF line.json THEN [ok |-> TRUE, value |-> line.value] ELSE [ok |-> FALSE]

\* ------------------------------------------------------------------------
\* StreamJsonAccumulator
\* ------------------------------------------------------------------------
AccInit ==
  /\ sessionId = Undef
  /\ resultText = ""
  /\ usage = Undef
  /\ toolNameById = << >>
  /\ calls = << >>
  /\ threw = FALSE
  /\ consumed = << >>

RECURSIVE ConcatAll(_)
ConcatAll(strs) ==
  IF strs = << >> THEN "" ELSE Head(strs) \o ConcatAll(Tail(strs))

\* The texts the loop over the content blocks accepts, in order.
RECURSIVE TextFragments(_)
TextFragments(content) ==
  IF content = << >> THEN << >>
  ELSE LET block == Head(content)
           accepted ==
             /\ Truthy(block)
             /\ TypeOf(block) = "object"
             /\ Get(block, "type") = Str("text")
             /\ TypeOf(Get(block, "text")) = "string"
             /\ Get(block, "text").s # ""
       IN (IF accepted THEN <<Get(block, "text").s>> ELSE << >>)
            \o TextFragments(Tail(content))

\* type === "system"
HandleSystem(parsed) ==
  /\ sessionId' = IF TypeOf(Get(parsed, "session_id")) = "string"
                    THEN Get(parsed, "session_id") ELSE sessionId
  /\ UNCHANGED <<resultText, usage, toolNameById, calls>>

\* An assistant branch that assigns the text instead of appending it.
HandleAssistant_Assign(parsed) ==
  LET message == Get(parsed, "message")
      content == IF OptGet(message, "content").k = "array"
                   THEN OptGet(message, "content").items ELSE << >>
      texts == TextFragments(content)
  IN /\ resultText' = IF texts = << >> THEN resultText ELSE ConcatAll(texts)
     /\ calls' = calls \o [i \in 1..Len(texts) |->
                             [cb |-> "onAssistantText", text |-> texts[i]]]
     /\ UNCHANGED <<sessionId, usage, toolNameById>>

\* type === "assistant"
HandleAssistant(parsed) ==
  LET message == Get(parsed, "message")
      content == IF OptGet(message, "content").k = "array"
                   THEN OptGet(message, "content").items ELSE << >>
      texts == TextFragments(content)
  IN /\ resultText' = resultText \o ConcatAll(texts)
     /\ calls' = calls \o [i \in 1..Len(texts) |->
                             [cb |-> "onAssistantText", text |-> texts[i]]]
     /\ UNCHANGED <<sessionId, usage, toolNameById>>

\* getToolName(toolUseId)
getToolName(toolUseId) ==
  IF toolUseId \in DOMAIN toolNameById THEN toolNameById[toolUseId] ELSE "unknown"

\* A tool_use branch that reports the call and registers nothing.
HandleToolUse_NoRegister(parsed) ==
  LET toolCallId == IF TypeOf(Get(parsed, "tool_use_id")) = "string"
                      THEN Get(parsed, "tool_use_id").s ELSE ""
      name == IF TypeOf(Get(parsed, "name")) = "string"
                THEN Get(parsed, "name").s ELSE "unknown"
      args == Coalesce(Get(parsed, "input"),
                       Coalesce(Get(parsed, "args"), Obj(<< >>)))
  IN /\ toolNameById' = toolNameById
     /\ calls' = Append(calls, [cb |-> "onToolUse", name |-> name,
                                toolCallId |-> toolCallId, args |-> args])
     /\ UNCHANGED <<sessionId, resultText, usage>>

\* type === "tool_use"
HandleToolUse(parsed) ==
  LET toolCallId == IF TypeOf(Get(parsed, "tool_use_id")) = "string"
                      THEN Get(parsed, "tool_use_id").s ELSE ""
      name == IF TypeOf(Get(parsed, "name")) = "string"
                THEN Get(parsed, "name").s ELSE "unknown"
      args == Coalesce(Get(parsed, "input"),
                       Coalesce(Get(parsed, "args"), Obj(<< >>)))
  IN /\ toolNameById' =
          IF toolCallId # ""
            THEN [id \in DOMAIN toolNameById \cup {toolCallId} |->
                    IF id = toolCallId THEN name ELSE toolNameById[id]]
            ELSE toolNameById
     /\ calls' = Append(calls, [cb |-> "onToolUse", name |-> name,
                                toolCallId |-> toolCallId, args |-> args])
     /\ UNCHANGED <<sessionId, resultText, usage>>

\* type === "tool_result"
HandleToolResult(parsed) ==
  LET toolCallId == IF TypeOf(Get(parsed, "tool_use_id")) = "string"
                      THEN Get(parsed, "tool_use_id").s ELSE ""
      name == getToolName(toolCallId)
      isError == Get(parsed, "is_error") = Bool(TRUE)
      text == IF TypeOf(Get(parsed, "content")) = "string"
                THEN Get(parsed, "content").s
              ELSE IF TypeOf(Get(parsed, "output")) = "string"
                THEN Get(parsed, "output").s
              ELSE Stringify(Coalesce(Get(parsed, "content"),
                                      Coalesce(Get(parsed, "output"), Str(""))))
  IN /\ calls' = Append(calls, [cb |-> "onToolResult", name |-> name,
                                toolCallId |-> toolCallId, isError |-> isError,
                                result |-> text])
     /\ UNCHANGED <<sessionId, resultText, usage, toolNameById>>

\* A result branch that appends the final text to the accumulated text.
HandleResult_Append(parsed) ==
  /\ resultText' =
       IF TypeOf(Get(parsed, "result")) = "string" /\ Get(parsed, "result").s # ""
         THEN resultText \o Get(parsed, "result").s ELSE resultText
  /\ sessionId' = IF TypeOf(Get(parsed, "session_id")) = "string"
                    THEN Get(parsed, "session_id") ELSE sessionId
  /\ usage' = usage
  /\ UNCHANGED <<toolNameById, calls>>

\* A result branch that prefers the short-form counts.
HandleResult_ShortFirst(parsed) ==
  /\ resultText' =
       IF TypeOf(Get(parsed, "result")) = "string" /\ Get(parsed, "result").s # ""
         THEN Get(parsed, "result").s ELSE resultText
  /\ sessionId' = IF TypeOf(Get(parsed, "session_id")) = "string"
                    THEN Get(parsed, "session_id") ELSE sessionId
  /\ usage' =
       IF Truthy(Get(parsed, "usage")) /\ TypeOf(Get(parsed, "usage")) = "object"
         THEN LET raw == Get(parsed, "usage") IN
              [k |-> "usage",
               input |-> Coalesce(Get(raw, "input"), Get(raw, "input_tokens")),
               output |-> Coalesce(Get(raw, "output"), Get(raw, "output_tokens"))]
         ELSE usage
  /\ UNCHANGED <<toolNameById, calls>>

\* type === "result"
HandleResult(parsed) ==
  /\ resultText' =
       IF TypeOf(Get(parsed, "result")) = "string" /\ Get(parsed, "result").s # ""
         THEN Get(parsed, "result").s ELSE resultText
  /\ sessionId' = IF TypeOf(Get(parsed, "session_id")) = "string"
                    THEN Get(parsed, "session_id") ELSE sessionId
  /\ usage' =
       IF Truthy(Get(parsed, "usage")) /\ TypeOf(Get(parsed, "usage")) = "object"
         THEN LET raw == Get(parsed, "usage") IN
              [k |-> "usage",
               input |-> Coalesce(Get(raw, "input_tokens"), Get(raw, "input")),
               output |-> Coalesce(Get(raw, "output_tokens"), Get(raw, "output"))]
         ELSE usage
  /\ UNCHANGED <<toolNameById, calls>>

\* A catch block that also resets the accumulated text.
CatchSyntaxError_Resets ==
  /\ threw' = FALSE
  /\ resultText' = ""
  /\ UNCHANGED <<sessionId, usage, toolNameById, calls>>

\* The catch block of handleLine: the line is ignored.
CatchSyntaxError ==
  /\ threw' = FALSE
  /\ UNCHANGED <<sessionId, resultText, usage, toolNameById, calls>>

\* handleLine(line).  Reading parsed.type of the value null raises a
\* TypeError, outside the try block.
handleLine(line) ==
  LET p == JSONParse(line) IN
  IF ~p.ok
    THEN CatchSyntaxError
  ELSE IF p.value.k = "null"
    THEN threw' = TRUE /\ UNCHANGED <<sessionId, resultText, usage, toolNameById, calls>>
  ELSE LET parsed == p.value
           type == Get(parsed, "type")
       IN /\ threw' = FALSE
          /\ CASE type = Str("system") -> HandleSystem(parsed)
               [] type = Str("assistant") -> HandleAssistant(parsed)
               [] type = Str("tool_use") -> HandleToolUse(parsed)
               [] type = Str("tool_result") -> HandleToolResult(parsed)
               [] type = Str("result") -> HandleResult(parsed)
               [] OTHER -> UNCHANGED <<sessionId, resultText, usage,
                                       toolNameById, calls>>

\* finalize()
finalize == [text |-> resultText, sessionId |-> sessionId, usage |-> usage]

\* One line of the subprocess is handed to the accumulator.
Consume(line) ==
  /\ UNCHANGED notAcc
  /\ Len(consumed) < MaxLines
  /\ consumed' = Append(consumed, line)
  /\ handleLine(line)

AccNext == \E line \in Lines : Consume(line)

\* The accumulator fed with tool and result events only.
AccDetailNext == \E line \in EventDetailLines : Consume(line)

\* ------------------------------------------------------------------------
\* Text of assistant messages: characters, thinking markers
\* ------------------------------------------------------------------------
\* A text is a sequence of characters.  A message is written as segments:
\* plain text, opening markers and closing markers.
Plain(chars) == [kind |-> "text", chars |-> chars]
Open(chars) == [kind |-> "open", chars |-> chars]
Close(chars) == [kind |-> "close", chars |-> chars]

RECURSIVE Flatten(_)
Flatten(segs) ==
  IF segs = << >> THEN << >> ELSE Head(segs).chars \o Flatten(Tail(segs))

\* "<thinking>hidden</thinking>visible"
ThinkingThenVisible ==
  <<Open(<<"<", "t", "h", "i", "n", "k", "i", "n", "g", ">">>), Plain(<<"h", "i", "d", "d", "e", "n">>),
    Close(<<"<", "/", "t", "h", "i", "n", "k", "i", "n", "g", ">">>), Plain(<<"v", "i", "s", "i", "b", "l", "e">>)>>

\* "a<think>XY": a span that is still open when the message ends
OpenSpan ==
  <<Plain(<<"a">>), Open(<<"<", "t", "h", "i", "n", "k", ">">>), Plain(<<"X", "Y">>)>>

\* "<THINK >X</ think> b": markers in upper case and with white space
SpacedMarkers ==
  <<Open(<<"<", "T", "H", "I", "N", "K", " ", ">">>), Plain(<<"X">>), Close(<<"<", "/", " ", "t", "h", "i", "n", "k", ">">>), Plain(<<" ", "b">>)>>

\* "hi": no marker
NoMarkers == <<Plain(<<"h", "i">>)>>

\* "<think>X</think>": nothing but a thinking span
OnlyThinking ==
  <<Open(<<"<", "t", "h", "i", "n", "k", ">">>), Plain(<<"X">>),
    Close(<<"<", "/", "t", "h", "i", "n", "k", ">">>)>>

\* "": a message without text (tool calls only)
NoText == << >>

AssistantMessages ==
  {[role |-> "assistant", segs |-> g] :
     g \in {ThinkingThenVisible, OpenSpan, SpacedMarkers, NoMarkers,
            OnlyThinking, NoText}}

UserMessages == {[role |-> "user", segs |-> NoMarkers]}

Messages == AssistantMessages \cup UserMessages

NoMessage == [role |-> "none"]

\* extractAssistantText(msg): the fully assembled text of the message.
extractAssistantText(msg) == Flatten(msg.segs)

Range(f) == {f[i] : i \in DOMAIN f}

\* \s
Whitespace == {" ", "\n", "\t"}

\* The lower-case form of a character (the i flag of THINKING_TAG_RE).
LowerCase(c) ==
  CASE c = "T" -> "t" [] c = "H" -> "h" [] c = "I" -> "i" [] c = "N" -> "n"
    [] c = "K" -> "k" [] c = "G" -> "g" [] OTHER -> c

\* \s* from position i: the first position at or after i that holds no
\* white space (Len(text) + 1 when there is none).
RECURSIVE SkipSpaces(_, _)
SkipSpaces(text, i) ==
  IF i <= Len(text) /\ text[i] \in Whitespace THEN SkipSpaces(text, i + 1) ELSE i

\* The word stands at position i of the text, in either case.
WordAt(text, i, word) ==
  /\ i + Len(word) - 1 <= Len(text)
  /\ \A j \in 1..Len(word) : LowerCase(text[i + j - 1]) = word[j]

\* THINKING_TAG_RE = /<\s*\/?\s*think(?:ing)?\s*>/gi matched at position i:
\* the position of the closing ">" of the match, or 0 when there is no match
\* at i.
TagEndAt(text, i) ==
  IF i > Len(text) \/ text[i] # "<" THEN 0
  ELSE LET afterLt == SkipSpaces(text, i + 1)
           afterSlash == IF afterLt <= Len(text) /\ text[afterLt] = "/"
                           THEN SkipSpaces(text, afterLt + 1) ELSE afterLt
       IN IF ~WordAt(text, afterSlash, <<"t", "h", "i", "n", "k">>) THEN 0
          ELSE LET afterThink == afterSlash + 5
                   afterName == IF WordAt(text, afterThink, <<"i", "n", "g">>)
                                  THEN afterThink + 3 ELSE afterThink
                   gt == SkipSpaces(text, afterName)
               IN IF gt <= Len(text) /\ text[gt] = ">" THEN gt ELSE 0

\* The first match of THINKING_TAG_RE at or after position from, or 0.
RECURSIVE NextTag(_, _)
NextTag(text, from) ==
  IF from > Len(text) THEN 0
  ELSE IF TagEndAt(text, from) # 0 THEN from
  ELSE NextTag(text, from + 1)

\* A reading of the tag that takes every marker for a closing one.
IsClosingTag_Always(text, i) == TRUE

\* tag.includes("/")
IsClosingTag(text, i) == \E j \in i..TagEndAt(text, i) : text[j] = "/"

Interval(a, b) == [j \in 1..(IF b >= a THEN b - a + 1 ELSE 0) |-> a + j - 1]

\* The loop of stripThinkingSegments over the matches at or after pos:
\* lastIndex characters are behind the last match; kept holds the positions
\* of the characters appended to result so far.
RECURSIVE StripScan(_, _, _, _, _)
StripScan(text, pos, lastIndex, inThinking, kept) ==
  LET idx == NextTag(text, pos) IN
  IF idx = 0
    THEN IF ~inThinking THEN kept \o Interval(lastIndex + 1, Len(text)) ELSE kept
  ELSE StripScan(text, TagEndAt(text, idx) + 1, TagEndAt(text, idx),
                 ~IsClosingTag(text, idx),
                 IF ~inThinking THEN kept \o Interval(lastIndex + 1, idx - 1)
                                ELSE kept)

\* stripThinkingSegments(text), as the positions of text it returns.
StripPositions(text) ==
  IF text = << >> \/ NextTag(text, 1) = 0
    THEN Interval(1, Len(text))
    ELSE StripScan(text, 1, 0, FALSE, << >>)

\* String.prototype.trim on the characters at the positions pos of text.
RECURSIVE TrimPositions(_, _)
TrimPositions(text, pos) ==
  IF pos = << >> THEN pos
  ELSE IF text[Head(pos)] \in Whitespace THEN TrimPositions(text, Tail(pos))
  ELSE IF text[pos[Len(pos)]] \in Whitespace
    THEN TrimPositions(text, SubSeq(pos, 1, Len(pos) - 1))
  ELSE pos

CharsAt(text, pos) == [j \in 1..Len(pos) |-> text[pos[j]]]

\* A stripper that returns its argument.
stripThinkingSegments_Identity(text) == text

stripThinkingSegments(text) == CharsAt(text, StripPositions(text))

\* ------------------------------------------------------------------------
\* subscribeEmbeddedPiSession
\* ------------------------------------------------------------------------
\* The params of one attachment.  onToolResult either is absent, returns, or
\* throws when called; shouldEmitToolResult is absent or returns a constant.
Params ==
  [verboseLevel : {"off", "on"},
   shouldEmitToolResult : {"absent", "true", "false"},
   onToolResult : {"absent", "returns", "throws"},
   onPartialReply : BOOLEAN,
   onAgentEvent : BOOLEAN]

DefaultParams ==
  [verboseLevel |-> "off", shouldEmitToolResult |-> "absent",
   onToolResult |-> "absent", onPartialReply |-> TRUE, onAgentEvent |-> TRUE]

BridgeInit ==
  /\ params \in Params
  /\ assistantTexts = << >>
  /\ toolMetas = << >>
  /\ toolMetaById = << >>
  /\ deltaBuffer = << >>
  /\ lastStreamedAssistant = Undef
  /\ pendingTools = << >>
  /\ flushTimer = "none"
  /\ telemetry = << >>
  /\ agentEvents = << >>
  /\ partialReplies = << >>
  /\ toolResults = << >>
  /\ handlerThrew = FALSE
  /\ curMsg = NoMessage
  /\ fed = 0
  /\ msgCount = 0
  /\ deltaCount = 0
  /\ toolEvents = 0
  /\ shown = {}
  /\ endedMsgs = << >>
  /\ freshLast = Undef

BridgeIdle == BridgeInit /\ params = DefaultParams

\* splitMediaFromOutput(text), for a text that holds no media reference.
splitMediaFromOutput(text) == [text |-> text, mediaUrls |-> Undef]

\* formatToolAggregate(toolName, metas): the aggregate of one tool name and
\* its metas.
formatToolAggregate(toolName, metas) == [tool |-> toolName, metas |-> metas]

\* The body of `if (chunk)` in the message_update branch that strips the
\* chunk on its own instead of the whole buffer.
HandleTextChunk_StripChunk(chunk) ==
  LET buffer == deltaBuffer \o chunk
      offset == Len(deltaBuffer)
      pos == [j \in DOMAIN TrimPositions(chunk, StripPositions(chunk)) |->
                offset + TrimPositions(chunk, StripPositions(chunk))[j]]
      next == CharsAt(buffer, pos)
  IN /\ deltaBuffer' = buffer
     /\ freshLast' = IF next # << >> THEN Str(next) ELSE freshLast
     /\ IF next # << >> /\ Str(next) # lastStreamedAssistant
          THEN LET cleanedText == splitMediaFromOutput(next).text IN
               /\ lastStreamedAssistant' = Str(next)
               /\ telemetry' = Append(telemetry,
                                      [stream |-> "assistant", text |-> cleanedText])
               /\ agentEvents' =
                    IF params.onAgentEvent
                      THEN Append(agentEvents,
                                  [stream |-> "assistant", text |-> cleanedText])
                      ELSE agentEvents
               /\ partialReplies' =
                    IF params.onPartialReply
                      THEN Append(partialReplies, [text |-> cleanedText])
                      ELSE partialReplies
               /\ shown' = shown \cup Range(pos)
          ELSE UNCHANGED <<lastStreamedAssistant, telemetry, agentEvents,
                           partialReplies, shown>>

\* The body of `if (chunk)` in the message_update branch that emits every
\* non-empty cleaned text, without comparing it with the last one.
HandleTextChunk_NoDedup(chunk) ==
  LET buffer == deltaBuffer \o chunk
      pos == TrimPositions(buffer, StripPositions(buffer))
      next == CharsAt(buffer, pos)
  IN /\ deltaBuffer' = buffer
     /\ freshLast' = IF next # << >> THEN Str(next) ELSE freshLast
     /\ IF next # << >>
          THEN LET cleanedText == splitMediaFromOutput(next).text IN
               /\ lastStreamedAssistant' = Str(next)
               /\ telemetry' = Append(telemetry,
                                      [stream |-> "assistant", text |-> cleanedText])
               /\ agentEvents' =
                    IF params.onAgentEvent
                      THEN Append(agentEvents,
                                  [stream |-> "assistant", text |-> cleanedText])
                      ELSE agentEvents
               /\ partialReplies' =
                    IF params.onPartialReply
                      THEN Append(partialReplies, [text |-> cleanedText])
                      ELSE partialReplies
               /\ shown' = shown \cup Range(pos)
          ELSE UNCHANGED <<lastStreamedAssistant, telemetry, agentEvents,
                           partialReplies, shown>>

\* The body of `if (chunk)` in the message_update branch.
HandleTextChunk(chunk) ==
  LET buffer == deltaBuffer \o chunk
      pos == TrimPositions(buffer, StripPositions(buffer))
      next == CharsAt(buffer, pos)
  IN /\ deltaBuffer' = buffer
     /\ freshLast' = IF next # << >> THEN Str(next) ELSE freshLast
     /\ IF next # << >> /\ Str(next) # lastStreamedAssistant
          THEN LET cleanedText == splitMediaFromOutput(next).text IN
               /\ lastStreamedAssistant' = Str(next)
               /\ telemetry' = Append(telemetry,
                                      [stream |-> "assistant", text |-> cleanedText])
               /\ agentEvents' =
                    IF params.onAgentEvent
                      THEN Append(agentEvents,
                                  [stream |-> "assistant", text |-> cleanedText])
                      ELSE agentEvents
               /\ partialReplies' =
                    IF params.onPartialReply
                      THEN Append(partialReplies, [text |-> cleanedText])
                      ELSE partialReplies
               /\ shown' = shown \cup Range(pos)
          ELSE UNCHANGED <<lastStreamedAssistant, telemetry, agentEvents,
                           partialReplies, shown>>

\* The session starts to stream a message (the bridge has no branch for
\* message_start).
MessageStart(m) ==
  /\ UNCHANGED notBridge
  /\ curMsg = NoMessage
  /\ msgCount < MaxMessages
  /\ curMsg' = m
  /\ fed' = 0
  /\ msgCount' = msgCount + 1
  /\ shown' = {}
  /\ freshLast' = Undef
  /\ UNCHANGED <<params, assistantTexts, toolMetas, toolMetaById, deltaBuffer,
                 lastStreamedAssistant, pendingTools, flushTimer, telemetry,
                 agentEvents, partialReplies, toolResults, handlerThrew,
                 deltaCount, toolEvents, endedMsgs>>

\* evt.type === "message_update" with a text_delta, text_start or text_end
\* fragment that carries the next n characters of the message (the branch
\* treats the three alike).
MessageUpdate(n) ==
  /\ UNCHANGED notBridge
  /\ curMsg # NoMessage
  /\ deltaCount < MaxDeltas
  /\ n \in 1..(Len(extractAssistantText(curMsg)) - fed)
  /\ fed' = fed + n
  /\ deltaCount' = deltaCount + 1
  /\ IF curMsg.role = "assistant"
       THEN HandleTextChunk(SubSeq(extractAssistantText(curMsg), fed + 1, fed + n))
       ELSE UNCHANGED <<deltaBuffer, lastStreamedAssistant, telemetry,
                        agentEvents, partialReplies, shown, freshLast>>
  /\ UNCHANGED <<params, assistantTexts, toolMetas, toolMetaById, pendingTools,
                 flushTimer, toolResults, handlerThrew, curMsg, msgCount,
                 toolEvents, endedMsgs>>

\* evt.type === "message_end", after the whole message was streamed.
MessageEnd ==
  /\ UNCHANGED notBridge
  /\ curMsg # NoMessage
  /\ fed = Len(extractAssistantText(curMsg))
  /\ IF curMsg.role = "assistant"
       THEN LET text == stripThinkingSegments(extractAssistantText(curMsg)) IN
            /\ assistantTexts' = IF text # << >> THEN Append(assistantTexts, text)
                                                 ELSE assistantTexts
            /\ deltaBuffer' = << >>
       ELSE UNCHANGED <<assistantTexts, deltaBuffer>>
  /\ curMsg' = NoMessage
  /\ fed' = 0
  /\ endedMsgs' = Append(endedMsgs, curMsg)
  /\ UNCHANGED <<params, toolMetas, toolMetaById, lastStreamedAssistant,
                 pendingTools, flushTimer, telemetry, agentEvents,
                 partialReplies, toolResults, handlerThrew, msgCount,
                 deltaCount, toolEvents, shown, freshLast>>

\* The tool calls of a run: the tool name and the call id of each.
ToolCalls == {[toolName |-> "Read", toolCallId |-> "call-1"],
              [toolName |-> "Bash", toolCallId |-> "call-2"]}

\* inferToolMetaFromArgs(toolName, args): a short description, or undefined.
ToolMetaOutcomes == {Undef, Str("/tmp/a.txt")}

\* evt.type === "tool_execution_start"; meta is what inferToolMetaFromArgs
\* makes of the event's args.
ToolExecutionStart(toolName, toolCallId, meta) ==
  /\ UNCHANGED notBridge
  /\ toolEvents < MaxToolEvents
  /\ toolEvents' = toolEvents + 1
  /\ toolMetaById' = [id \in DOMAIN toolMetaById \cup {toolCallId} |->
                        IF id = toolCallId THEN meta ELSE toolMetaById[id]]
  /\ telemetry' = Append(telemetry, [stream |-> "tool", phase |-> "start",
                                     name |-> toolName, toolCallId |-> toolCallId])
  /\ agentEvents' =
       IF params.onAgentEvent
         THEN Append(agentEvents, [stream |-> "tool", phase |-> "start",
                                   name |-> toolName, toolCallId |-> toolCallId])
         ELSE agentEvents
  /\ handlerThrew' = FALSE
  /\ UNCHANGED <<params, assistantTexts, toolMetas, deltaBuffer,
                 lastStreamedAssistant, pendingTools, flushTimer,
                 partialReplies, toolResults, curMsg, fed, msgCount,
                 deltaCount, shown, endedMsgs, freshLast>>

\* A delivery to onToolResult without the try block: the exception of the
\* sink leaves the event handler.
DeliverToolResult_NoCatch(payload) ==
  /\ toolResults' = Append(toolResults,
                           [payload |-> payload,
                            raised |-> params.onToolResult = "throws"])
  /\ handlerThrew' = (params.onToolResult = "throws")

\* try { void params.onToolResult(payload) } catch { }
DeliverToolResult(payload) ==
  /\ toolResults' = Append(toolResults,
                           [payload |-> payload,
                            raised |-> params.onToolResult = "throws"])
  /\ handlerThrew' = FALSE

\* Verbose delivery decided by the policy or the predicate, whichever
\* allows it.
emitToolResult_Either ==
  params.verboseLevel = "on" \/ params.shouldEmitToolResult = "true"

\* typeof params.shouldEmitToolResult === "function"
\*   ? params.shouldEmitToolResult() : params.verboseLevel === "on"
emitToolResult ==
  IF params.shouldEmitToolResult # "absent"
    THEN params.shouldEmitToolResult = "true"
    ELSE params.verboseLevel = "on"

\* evt.type === "tool_execution_end"
ToolExecutionEnd(toolName, toolCallId, isError) ==
  LET meta == IF toolCallId \in DOMAIN toolMetaById
                THEN toolMetaById[toolCallId] ELSE Undef
      notification == [stream |-> "tool", phase |-> "result", name |-> toolName,
                       toolCallId |-> toolCallId, meta |-> meta,
                       isError |-> isError]
      agg == formatToolAggregate(toolName,
                                 IF Truthy(meta) THEN <<meta.s>> ELSE << >>)
      cleanedText == splitMediaFromOutput(agg).text
  IN /\ UNCHANGED notBridge
     /\ toolEvents < MaxToolEvents
     /\ toolEvents' = toolEvents + 1
     /\ toolMetas' = Append(toolMetas, [toolName |-> toolName, meta |-> meta])
     /\ pendingTools' = Append(pendingTools, [toolName |-> toolName, meta |-> meta])
     /\ flushTimer' = "pending"
     /\ telemetry' = Append(telemetry, notification)
     /\ agentEvents' = IF params.onAgentEvent THEN Append(agentEvents, notification)
                                              ELSE agentEvents
     /\ IF emitToolResult /\ params.onToolResult # "absent"
          THEN DeliverToolResult([text |-> cleanedText])
          ELSE /\ handlerThrew' = FALSE
               /\ UNCHANGED toolResults
     /\ UNCHANGED <<params, assistantTexts, toolMetaById, deltaBuffer,
                    lastStreamedAssistant, partialReplies, curMsg, fed,
                    msgCount, deltaCount, shown, endedMsgs, freshLast>>

\* A flush that hands the pending pairs over and cancels the timer but
\* leaves the pairs in the queue.
Flush_KeepsQueue ==
  /\ partialReplies' =
       IF pendingTools # << >> /\ params.onPartialReply
         THEN Append(partialReplies, [aggregate |-> pendingTools])
         ELSE partialReplies
  /\ pendingTools' = pendingTools
  /\ flushTimer' = "none"

\* toolDebouncer.flush(): the pending pairs go to onPartialReply as one
\* aggregate, the queue is emptied and the timer cancelled.
Flush ==
  /\ partialReplies' =
       IF pendingTools # << >> /\ params.onPartialReply
         THEN Append(partialReplies, [aggregate |-> pendingTools])
         ELSE partialReplies
  /\ pendingTools' = << >>
  /\ flushTimer' = "none"

\* The timer of the debouncer expires.
DebounceTimerFires ==
  /\ UNCHANGED notBridge
  /\ flushTimer = "pending"
  /\ Flush
  /\ UNCHANGED <<params, assistantTexts, toolMetas, toolMetaById, deltaBuffer,
                 lastStreamedAssistant, telemetry, agentEvents, toolResults,
                 handlerThrew, curMsg, fed, msgCount, deltaCount, toolEvents,
                 shown, endedMsgs, freshLast>>

\* evt.type === "agent_end"
AgentEnd ==
  /\ UNCHANGED notBridge
  /\ toolEvents < MaxToolEvents
  /\ toolEvents' = toolEvents + 1
  /\ Flush
  /\ handlerThrew' = FALSE
  /\ UNCHANGED <<params, assistantTexts, toolMetas, toolMetaById, deltaBuffer,
                 lastStreamedAssistant, telemetry, agentEvents, toolResults,
                 curMsg, fed, msgCount, deltaCount, shown, endedMsgs,
                 freshLast>>

\* The lengths a delta can have.
DeltaLengths == 1..Len(Flatten(ThinkingThenVisible))

\* The bridge on the message events of a run.
BridgeTextNext ==
  \/ \E m \in Messages : MessageStart(m)
  \/ \E n \in DeltaLengths : MessageUpdate(n)
  \/ MessageEnd

\* The bridge on the tool events of a run.
BridgeToolNext ==
  \/ \E call \in ToolCalls, meta \in ToolMetaOutcomes :
        ToolExecutionStart(call.toolName, call.toolCallId, meta)
  \/ \E call \in ToolCalls, isError \in BOOLEAN :
        ToolExecutionEnd(call.toolName, call.toolCallId, isError)
  \/ DebounceTimerFires
  \/ AgentEnd

\* ------------------------------------------------------------------------
\* Specifications
\* ------------------------------------------------------------------------
ExecIdle == ExecInit /\ childState = "running"

ExecSpecInit == ExecInit /\ SerInit /\ AccInit /\ BridgeIdle

ExecSpec == ExecSpecInit /\ [][ExecNext]_vars

SerSpecInit == ExecIdle /\ SerInit /\ AccInit /\ BridgeIdle

AccSpecInit == ExecIdle /\ SerInit /\ AccInit /\ BridgeIdle

AccSpec == AccSpecInit /\ [][AccNext]_vars

AccDetailSpecInit == ExecIdle /\ SerInit /\ AccInit /\ BridgeIdle

AccDetailSpec == AccDetailSpecInit /\ [][AccDetailNext]_vars

\* Message events, with every sink registered or missing.
BridgeTextSpecInit ==
  /\ ExecIdle /\ SerInit /\ AccInit /\ BridgeInit
  /\ params.verboseLevel = "off"
  /\ params.shouldEmitToolResult = "absent"
  /\ params.onToolResult = "absent"

BridgeTextSpec == BridgeTextSpecInit /\ [][BridgeTextNext]_vars

\* Tool events, under every combination of the params.
BridgeToolSpecInit == ExecIdle /\ SerInit /\ AccInit /\ BridgeInit

BridgeToolSpec == BridgeToolSpecInit /\ [][BridgeToolNext]_vars

SerSpec == SerSpecInit /\ [][SerNext]_vars

\* The continuation that starts the next operation is a job of the event
\* loop: once it is ready it runs.
SerFairSpec ==
  /\ SerSpec
  /\ \A op \in Ops : WF_vars(StartOperation(op))

\* ------------------------------------------------------------------------
\* Two runs on one session file: runExclusive driving runCommandStreaming
\* ------------------------------------------------------------------------
\* Operations 1 and 2 are two runs submitted for the same session file.  The
\* operation of run 1 is the runCommandStreaming invocation modelled above:
\* it begins when the serializer starts operation 1, and operation 1
\* completes when the promise of runCommandStreaming has settled.
SessionKey == "/tmp/session.jsonl"

SubmitRun(op) == RunExclusive(SessionKey, op)

StartRun(op) == StartOperation(op)

\* A step of the first run's runCommandStreaming invocation, or of its child.
FirstRunStep ==
  /\ opState[1] \in {"running", "done"}
  /\ ExecNext

\* The promise of the first run's invocation has settled: the operation
\* returns its value or throws its error.
FirstRunSettles ==
  /\ outcome # "pending"
  /\ OperationSettles(1, IF outcome = "resolved" THEN "ok" ELSE "throw")

\* The second run completes.
SecondRunSettles(how) == OperationSettles(2, how)

RunNext ==
  \/ \E op \in {1, 2} : SubmitRun(op)
  \/ \E op \in {1, 2} : StartRun(op)
  \/ FirstRunStep
  \/ FirstRunSettles
  \/ \E how \in {"ok", "throw"} : SecondRunSettles(how)

RunSpecInit == ExecInit /\ SerInit /\ AccInit /\ BridgeIdle

RunSpec == RunSpecInit /\ [][RunNext]_vars

\* The runCommandStreaming invocation of the first run is under way.
FirstRunBegun == opState[1] \in {"running", "done"}

\* The chunks the child writes in the runs checked for termination: a byte
\* of a line, or the newline that ends one.
RunChunks == {<<"a">>, <<"\n">>}

\* The child of the first run writes to stdout.
RunOutput == FirstRunBegun /\ \E chunk \in RunChunks : StdoutData(chunk)

\* The child of the first run terminates by itself.
RunChildExits ==
  /\ FirstRunBegun
  /\ \/ \E code \in ExitCodes : ChildExit(code, "null")
     \/ ChildExit(<< >>, "SIGTERM")

\* The timeout of the first run's invocation, armed by setTimeout, runs out.
RunTimeout == FirstRunBegun /\ TimerFire

\* The runtime emits 'error' for a child that could not be spawned.
RunSpawnError == FirstRunBegun /\ childState = "failed" /\ ErrorEvent

\* The runtime emits 'error' for a child that was spawned.
RunLateError == FirstRunBegun /\ childState # "failed" /\ ErrorEvent

\* The runtime emits 'close' once the child has exited and its streams ended.
RunClose == FirstRunBegun /\ CloseEvent

BoundedRunNext ==
  \/ \E op \in {1, 2} : SubmitRun(op)
  \/ \E op \in {1, 2} : StartRun(op)
  \/ RunOutput
  \/ RunChildExits
  \/ RunTimeout
  \/ RunSpawnError
  \/ RunLateError
  \/ RunClose
  \/ FirstRunSettles
  \/ \E how \in {"ok", "throw"} : SecondRunSettles(how)

RunFairSpecInit == ExecInit /\ SerInit /\ AccInit /\ BridgeIdle

\* The event loop runs what is ready: the start of a queued operation, the
\* timer callback, the 'error' of a failed spawn, the 'close' that follows
\* an exit, and the continuation of the settled promise.  Nothing makes the
\* child exit by itself, write output, or fail after it was spawned.
RunFairSpec ==
  /\ RunFairSpecInit
  /\ [][BoundedRunNext]_vars
  /\ WF_vars(StartRun(1))
  /\ WF_vars(RunTimeout)
  /\ WF_vars(RunSpawnError)
  /\ WF_vars(RunClose)
  /\ WF_vars(FirstRunSettles)

\* ------------------------------------------------------------------------
\* Properties of runCommandStreaming
\* ------------------------------------------------------------------------

\* C2: the promise is settled at most once; once settled, a later 'error' or
\* 'close' event changes neither the outcome nor the resolved value and does
\* not flush the line buffer again; the first of 'error' and 'close' to be
\* emitted decides between rejection and resolution.
C2_SettlesExactlyOnce ==
  [][ /\ settleCount' <= 1
      /\ settled => /\ settled'
                    /\ outcome' = outcome
                    /\ result' = result
                    /\ settleCount' = settleCount
                    /\ flushCount' = flushCount
      /\ firstTerminal' = "error" => outcome' = "rejected"
      /\ firstTerminal' = "close" => outcome' = "resolved" ]_vars

\* Both terminal events have been emitted, 'error' first.
C2_Witness ==
  /\ firstTerminal = "error"
  /\ childState = "closed"
  /\ settleCount = 1

\* The text split at every newline; a last segment that no newline ends is
\* the remainder, and is a line only when it is not empty.
RECURSIVE SplitOnNewlines(_)
SplitOnNewlines(s) ==
  LET i == IndexOfNewline(s) IN
  IF i = 0 THEN IF s = << >> THEN << >> ELSE <<s>>
  ELSE <<SubSeq(s, 1, i - 1)>> \o SplitOnNewlines(SubSeq(s, i + 1, Len(s)))

\* C3: when the process has closed, the lines handed to onStdoutLine are the
\* lines of the whole decoded output split on newlines, with the remainder
\* last, however the output was cut into chunks.
C3_ChunkBoundaryIndependence ==
  outcome = "resolved" => lines = SplitOnNewlines(Utf8Decode(allBytes))

\* C4: the timer sends at most one SIGKILL, sends it when the timeout elapses
\* with the child still running, and the outcome the promise is then resolved
\* with has killed = true, whatever lines were delivered before.
C4_TimeoutIsReported ==
  /\ killsSent <= 1
  /\ aliveAtTimeout => killsSent = 1
  /\ (outcome = "resolved" /\ aliveAtTimeout) => result.killed = TRUE

\* A run killed by the timer after it had delivered a line.
C4_Witness ==
  /\ outcome = "resolved"
  /\ aliveAtTimeout
  /\ Len(lines) >= 1
  /\ result.killed = TRUE


\* ------------------------------------------------------------------------
\* Properties of the run serializer
\* ------------------------------------------------------------------------
Running(key) == {o \in Ops : opState[o] = "running" /\ opKey[o] = key}

Started(op) ==
  /\ opKey[op] \in Keys
  /\ \E i \in 1..Len(startOrder[opKey[op]]) : startOrder[opKey[op]][i] = op

IsPrefix(s, t) == Len(s) <= Len(t) /\ s = SubSeq(t, 1, Len(s))

\* C1: at most one operation of a key is in flight at any moment.
C1_MutualExclusion ==
  \A key \in Keys : Cardinality(Running(key)) <= 1

\* One operation of a key is running while a second one of the same key waits.
C1_Witness ==
  \E o, p \in Ops :
    /\ o # p /\ opKey[o] = opKey[p]
    /\ opState[o] = "running" /\ opState[p] = "queued"

\* C9: the operations of a key start in the order of their submission, and
\* an operation has started only if every operation submitted before it for
\* the same key has completed, by returning or by throwing.
C9_StrictFifoPerKey ==
  /\ \A key \in Keys : IsPrefix(startOrder[key], submitOrder[key])
  /\ \A o, p \in Ops :
       (p < o /\ opKey[p] = opKey[o] /\ Started(o)) => opState[p] = "done"

\* Three operations of one key, the first of which threw, have started.
C9_Witness ==
  \E key \in Keys :
    /\ Len(startOrder[key]) >= 3
    /\ opOutcome[startOrder[key][1]] = "throw"

\* An operation waits behind a failed operation of the same key.
WaitsBehindFailure(op) ==
  /\ opState[op] = "queued"
  /\ \E p \in Ops : p < op /\ opKey[p] = opKey[op] /\ opOutcome[p] = "throw"
  /\ Running(opKey[op]) = {}
  /\ Head(queues[opKey[op]]) = op

\* C10: a failure reaches the caller of the failing operation and nobody
\* else (every caller gets the result of its own operation), the slot is
\* released, and the operation queued behind the failed one eventually
\* starts.
C10_FailureDoesNotPoison ==
  /\ [](\A o \in Ops : opState[o] = "done" => callerResult[o] = opOutcome[o])
  /\ [](\A o \in Ops : opOutcome[o] = "throw" =>
           \A i \in 1..Len(queues[opKey[o]]) : queues[opKey[o]][i] # o)
  /\ \A o \in Ops : WaitsBehindFailure(o) ~> Started(o)

\* The operation queued behind a failed one ran and returned normally.
C10_Witness ==
  \E o, p \in Ops :
    /\ p < o /\ opKey[p] = opKey[o]
    /\ opOutcome[p] = "throw" /\ callerResult[p] = "throw"
    /\ opOutcome[o] = "ok" /\ callerResult[o] = "ok"

\* The executable was launched: the child runs, or has terminated with an
\* exit code or a signal (a failed spawn has neither).
Launched ==
  \/ childState \in {"running", "exited"}
  \/ childState = "closed" /\ (exitCode # << >> \/ exitSignal # "null")

\* C13: the promise rejects only when the executable could not be launched;
\* when the child was launched, its exit code or terminating signal (the
\* timeout kill included) resolves the promise with that code and signal in
\* the outcome.
C13_RejectsOnlyOnLaunchFailure ==
  /\ outcome = "rejected" => ~Launched
  /\ (Launched /\ childState = "closed") =>
       /\ outcome = "resolved"
       /\ result.code = exitCode
       /\ result.signal = exitSignal

\* C18: once the promise has settled (resolved on 'close' or rejected on
\* 'error'), onStdoutLine is not invoked again.
C18_NoLineAfterSettled ==
  [][settled => lines' = lines]_vars

\* C12: of two runs on the same key, the second starts (and so makes its
\* line callbacks) only after the first run's invocation has settled, and the
\* first run makes no line callback once the second has started, also when
\* the first settled by an 'error' of its child.
C12_NoInterleavedLineCallbacks ==
  [][ /\ Started(2)' => outcome' # "pending"
      /\ lines' # lines => ~Started(2)' ]_vars

\* The operation waits, every earlier operation of its key has completed,
\* and an operation of another key is in flight.
WaitsOnlyForOtherKey(op) ==
  /\ opState[op] = "queued"
  /\ \A p \in Ops : (p < op /\ opKey[p] = opKey[op]) => opState[p] = "done"
  /\ \E q \in Ops : opKey[q] # opKey[op] /\ opState[q] = "running"

\* C11: an operation whose own key is free starts, whatever is in flight or
\* queued for another key, even if the operation of the other key never
\* completes (no fairness is assumed for completions).
C11_DistinctKeysIndependent ==
  \A op \in Ops : WaitsOnlyForOtherKey(op) ~> Started(op)

\* Operations of two different keys are in flight at the same time.
C11_Witness ==
  \E o, p \in Ops :
    /\ opState[o] = "running" /\ opState[p] = "running"
    /\ opKey[o] # opKey[p]

\* ------------------------------------------------------------------------
\* Properties of StreamJsonAccumulator
\* ------------------------------------------------------------------------
RecognizedTypes == {"system", "assistant", "tool_use", "tool_result", "result"}

\* The line is the JSON text of an object whose type is t.
IsEvent(line, t) ==
  /\ line.json
  /\ line.value.k = "object"
  /\ "type" \in DOMAIN line.value.f
  /\ line.value.f["type"] = Str(t)

\* The line does not decode, or decodes to a value with no recognized type.
IsIgnorable(line) == \A t \in RecognizedTypes : ~IsEvent(line, t)

\* The line is a result event with a non-empty final text.
HasFinalText(line) ==
  /\ IsEvent(line, "result")
  /\ "result" \in DOMAIN line.value.f
  /\ line.value.f["result"].k = "string"
  /\ line.value.f["result"].s # ""

FinalText(line) == line.value.f["result"].s

\* The non-empty text fragments of the assistant events among the lines,
\* concatenated in arrival order.
RECURSIVE AssistantTextOf(_)
AssistantTextOf(ls) ==
  IF ls = << >> THEN ""
  ELSE (IF IsEvent(Head(ls), "assistant")
          THEN ConcatAll(TextFragments(Head(ls).value.f["message"].f["content"].items))
          ELSE "")
       \o AssistantTextOf(Tail(ls))

\* The index of the last result event with a non-empty final text, or 0.
LastFinal(ls) ==
  LET at == {i \in 1..Len(ls) : HasFinalText(ls[i])} IN
  IF at = {} THEN 0 ELSE CHOOSE i \in at : \A j \in at : j <= i

\* C5: handleLine returns normally for every line.
C5_NeverRaises == threw = FALSE

\* C6: a line that does not decode, or that decodes to a value with no
\* recognized type, leaves text, session id, usage and tool registry as they
\* were and calls no observer, from any prior state.
C6_IgnoredLineIsNoOp ==
  [][ (consumed' # consumed /\ IsIgnorable(consumed'[Len(consumed')]))
        => UNCHANGED <<sessionId, resultText, usage, toolNameById, calls>> ]_vars

\* A malformed line was consumed by an accumulator that already held text and
\* a session id.
C6_Witness ==
  /\ Len(consumed) >= 2
  /\ ~consumed[Len(consumed)].json
  /\ resultText # ""
  /\ sessionId # Undef

\* C7 as claimed: the text is that of the last result event with a non-empty
\* final text if there is one, and else the concatenation of all assistant
\* text fragments.
C7_ResultAlwaysWins ==
  finalize.text = IF LastFinal(consumed) # 0
                    THEN FinalText(consumed[LastFinal(consumed)])
                    ELSE AssistantTextOf(consumed)

\* C7 as amended: the text is that of the last result event with a non-empty
\* final text (the empty text if there is none) followed by the assistant
\* text fragments consumed after that event.
C7_ResultWinsOverEarlierDeltas ==
  LET last == LastFinal(consumed)
      after == SubSeq(consumed, last + 1, Len(consumed))
  IN finalize.text =
       (IF last # 0 THEN FinalText(consumed[last]) ELSE "") \o AssistantTextOf(after)

\* Assistant text, then a result event that replaces it, then assistant text
\* again.
C7_Witness ==
  /\ Len(consumed) = 3
  /\ IsEvent(consumed[1], "assistant")
  /\ HasFinalText(consumed[2])
  /\ IsEvent(consumed[3], "assistant")
  /\ finalize.text = "finalpartial"

\* C8: a result event with a non-empty final text sets the text to exactly
\* that string; a result event with no or an empty final text leaves the
\* text as it was.
C8_ResultReplaces ==
  [][ (consumed' # consumed /\ IsEvent(consumed'[Len(consumed')], "result"))
        => resultText' = IF HasFinalText(consumed'[Len(consumed')])
                           THEN FinalText(consumed'[Len(consumed')])
                           ELSE resultText ]_vars

\* assistant "partial" then result "final" gives the text "final".
C8_Witness ==
  /\ Len(consumed) = 2
  /\ IsEvent(consumed[1], "assistant")
  /\ HasFinalText(consumed[2])
  /\ calls = <<[cb |-> "onAssistantText", text |-> "partial"]>>
  /\ finalize.text = "final"

\* The call id of a tool event: its tool_use_id, the empty string when the
\* event carries none.
CallIdOf(line) ==
  IF "tool_use_id" \in DOMAIN line.value.f /\ line.value.f["tool_use_id"].k = "string"
    THEN line.value.f["tool_use_id"].s ELSE ""

\* The tool name of a tool_use event, "unknown" when the event carries none.
ToolNameOf(line) ==
  IF "name" \in DOMAIN line.value.f /\ line.value.f["name"].k = "string"
    THEN line.value.f["name"].s ELSE "unknown"

CallIds == {"", "tu-1", "tu-2", "tu-3"}

\* The name of the latest tool_use event among the lines whose call id is
\* id and is one of the registrable ids; "unknown" when there is none.
RegisteredName(ls, id, registrable) ==
  LET at == {i \in 1..Len(ls) : /\ IsEvent(ls[i], "tool_use")
                                /\ CallIdOf(ls[i]) = id
                                /\ id \in registrable}
  IN IF at = {} THEN "unknown"
     ELSE ToolNameOf(ls[CHOOSE i \in at : \A j \in at : j <= i])

\* Tool names resolve as if every id among the registrable ones is mapped by
\* its tool_use events: getToolName agrees with the latest registration, and
\* a tool_result is reported under the name registered when it arrives.
ToolNamesResolve(registrable) ==
  /\ \A id \in CallIds : getToolName(id)' = RegisteredName(consumed', id, registrable)
  /\ \A line \in ToolResultEventLines :
       consumed' = Append(consumed, line) =>
         /\ Len(calls') = Len(calls) + 1
         /\ calls'[Len(calls')].cb = "onToolResult"
         /\ calls'[Len(calls')].toolCallId = CallIdOf(line)
         /\ calls'[Len(calls')].name =
              RegisteredName(consumed, CallIdOf(line), registrable)

\* C14 as stated: every tool_use event maps its call id, the empty string
\* of an event without id included, to its tool name.
C14_ToolNameResolution ==
  [][ToolNamesResolve(CallIds)]_vars

\* C14, amended: a tool_use event with a non-empty call id maps that id to
\* its tool name ("unknown" when it carries none); getToolName of the id
\* returns the name and a later tool_result with the id is reported under it;
\* the empty id and every id never registered resolve to "unknown".
C14_NonEmptyIdResolution ==
  [][ToolNamesResolve(CallIds \ {""})]_vars

\* tool_use tu-1 "Read", tool_use without id, then a tool_result for tu-1
\* reported as "Read"; the id tu-3 was never registered.
C14_Witness ==
  /\ Len(consumed) = 3
  /\ IsEvent(consumed[1], "tool_use") /\ CallIdOf(consumed[1]) = "tu-1"
  /\ IsEvent(consumed[2], "tool_use") /\ CallIdOf(consumed[2]) = ""
  /\ IsEvent(consumed[3], "tool_result") /\ CallIdOf(consumed[3]) = "tu-1"
  /\ calls[3].cb = "onToolResult" /\ calls[3].name = "Read"
  /\ getToolName("tu-1") = "Read"
  /\ getToolName("") = "unknown"
  /\ getToolName("tu-3") = "unknown"

\* The result event carries a usage object.
HasUsageObject(line) ==
  /\ "usage" \in DOMAIN line.value.f
  /\ line.value.f["usage"].k = "object"

\* The count of a usage object: the one named snake when that is present,
\* otherwise the one named short; undefined when the object has neither.
CountOf(raw, snake, short) ==
  IF snake \in DOMAIN raw.f /\ raw.f[snake] # Null THEN raw.f[snake]
  ELSE IF short \in DOMAIN raw.f THEN raw.f[short]
  ELSE Undef

FieldOf(line, name) ==
  IF name \in DOMAIN line.value.f THEN line.value.f[name] ELSE Undef

\* The result text the observer is to receive: content when it is a string,
\* else output when it is a string, else the JSON text of whichever of the
\* two is present, and the empty string when the event has neither.
SelectedResultText(line) ==
  LET content == FieldOf(line, "content")
      output == FieldOf(line, "output")
  IN IF content.k = "string" THEN content.s
     ELSE IF output.k = "string" THEN output.s
     ELSE IF content = Undef /\ output = Undef THEN ""
     ELSE Stringify(Coalesce(content, output))

\* C19: the result string handed to onToolResult is the selected result
\* text of the tool_result event.
C19_ToolResultText ==
  [][ \A line \in ToolResultEventLines :
        consumed' = Append(consumed, line) =>
          calls'[Len(calls')].result = SelectedResultText(line) ]_vars

\* ------------------------------------------------------------------------
\* Properties of subscribeEmbeddedPiSession
\* ------------------------------------------------------------------------
\* The cleaned text of the rolling buffer: stripped of thinking spans, trimmed.
CleanedBuffer ==
  CharsAt(deltaBuffer, TrimPositions(deltaBuffer, StripPositions(deltaBuffer)))

StreamedWhole == curMsg # NoMessage /\ fed = Len(extractAssistantText(curMsg))

\* C16: once the last delta of "<thinking>hidden</thinking>visible" has been
\* handled, however the message was cut into deltas, the cleaned text of the
\* rolling buffer, which is also the last streamed text, is "visible".
C16_StrippingIgnoresChunkBoundaries ==
  (StreamedWhole /\ curMsg.role = "assistant" /\ curMsg.segs = ThinkingThenVisible)
    => /\ CleanedBuffer = ThinkingThenVisible[4].chars
       /\ lastStreamedAssistant = Str(ThinkingThenVisible[4].chars)

\* The message was cut inside the opening marker ("<thi" was streamed on its
\* own) and has been streamed to its end.
C16_Witness ==
  /\ StreamedWhole /\ curMsg.role = "assistant" /\ curMsg.segs = ThinkingThenVisible
  /\ deltaCount = 2
  /\ \E i \in DOMAIN telemetry : telemetry[i].text = <<"<", "t", "h", "i">>
  /\ CleanedBuffer = <<"v", "i", "s", "i", "b", "l", "e">>

\* The positions of the message text that lie inside a thinking span: the
\* text after an opening marker, up to the next closing marker.
RECURSIVE HiddenFrom(_, _, _)
HiddenFrom(segs, offset, inSpan) ==
  IF segs = << >> THEN {}
  ELSE LET seg == Head(segs)
           n == Len(seg.chars)
       IN CASE seg.kind = "open" -> HiddenFrom(Tail(segs), offset + n, TRUE)
            [] seg.kind = "close" -> HiddenFrom(Tail(segs), offset + n, FALSE)
            [] OTHER -> (IF inSpan THEN (offset + 1)..(offset + n) ELSE {})
                          \cup HiddenFrom(Tail(segs), offset + n, inSpan)

HiddenPositions(msg) == HiddenFrom(msg.segs, 0, FALSE)

\* C20: no character of a thinking span of the message being streamed is
\* ever part of a text handed to the assistant notification or to
\* onPartialReply.
C20_HiddenTextNeverDelivered ==
  curMsg # NoMessage => shown \cap HiddenPositions(curMsg) = {}

\* "<thinking>hidden</thinking>visible" was streamed in two deltas, the
\* first ending inside the hidden text, and "visible" was delivered.
C20_Witness ==
  /\ StreamedWhole /\ curMsg.role = "assistant" /\ curMsg.segs = ThinkingThenVisible
  /\ deltaCount = 2
  /\ Len(telemetry) = 1
  /\ HiddenPositions(curMsg) = 11..16
  /\ shown = 28..34
  /\ partialReplies # << >>
  /\ partialReplies[Len(partialReplies)].text = <<"v", "i", "s", "i", "b", "l", "e">>

\* C17: no exception leaves the event handler; and when onToolResult raises
\* in a tool_execution_end event, the tool meta has been recorded and pushed
\* to the debouncer, and emitAgentEvent and onAgentEvent have received the
\* tool/result notification.
C17_SinkFailureContained ==
  [][ /\ ~handlerThrew'
      /\ (/\ Len(toolResults') = Len(toolResults) + 1
          /\ toolResults'[Len(toolResults')].raised)
         => /\ Len(toolMetas') = Len(toolMetas) + 1
            /\ SubSeq(toolMetas', 1, Len(toolMetas)) = toolMetas
            /\ pendingTools' = Append(pendingTools, toolMetas'[Len(toolMetas')])
            /\ flushTimer' = "pending"
            /\ Len(telemetry') = Len(telemetry) + 1
            /\ telemetry'[Len(telemetry')].stream = "tool"
            /\ telemetry'[Len(telemetry')].phase = "result"
            /\ telemetry'[Len(telemetry')].name = toolMetas'[Len(toolMetas')].toolName
            /\ telemetry'[Len(telemetry')].meta = toolMetas'[Len(toolMetas')].meta
            /\ agentEvents' = IF params.onAgentEvent
                                THEN Append(agentEvents, telemetry'[Len(telemetry')])
                                ELSE agentEvents ]_vars

\* onToolResult raised on the first tool_execution_end; a second one and the
\* run end were handled after it, and the run end flushed both pairs.
C17_Witness ==
  /\ toolEvents = 3
  /\ Len(toolResults) = 2 /\ toolResults[1].raised
  /\ Len(toolMetas) = 2
  /\ Len(telemetry) = 2
  /\ pendingTools = << >>
  /\ partialReplies = <<[aggregate |-> toolMetas]>>
  /\ ~handlerThrew

\* The positions of the message text that belong to a thinking marker.
RECURSIVE MarkerFrom(_, _)
MarkerFrom(segs, offset) ==
  IF segs = << >> THEN {}
  ELSE LET n == Len(Head(segs).chars) IN
       (IF Head(segs).kind \in {"open", "close"}
          THEN (offset + 1)..(offset + n) ELSE {})
         \cup MarkerFrom(Tail(segs), offset + n)

MarkerPositions(msg) == MarkerFrom(msg.segs, 0)

\* C27: no character of a thinking marker of the message being streamed is
\* ever part of a text handed to the assistant notification or to
\* onPartialReply, however the message is cut into deltas.
C27_NoMarkerFragmentDelivered ==
  curMsg # NoMessage => shown \cap MarkerPositions(curMsg) = {}

\* The text of the message outside its thinking spans and markers.
VisibleText(msg) ==
  LET text == extractAssistantText(msg)
      keep == {i \in 1..Len(text) :
                 i \notin HiddenPositions(msg) \cup MarkerPositions(msg)}
  IN [j \in 1..Cardinality(keep) |->
        text[CHOOSE i \in keep : Cardinality({k \in keep : k < i}) = j - 1]]

\* The visible texts of the assistant messages among msgs, in order; the
\* empty ones only when withEmpty.
RECURSIVE VisibleTexts(_, _)
VisibleTexts(msgs, withEmpty) ==
  IF msgs = << >> THEN << >>
  ELSE (IF /\ Head(msgs).role = "assistant"
           /\ (withEmpty \/ VisibleText(Head(msgs)) # << >>)
          THEN <<VisibleText(Head(msgs))>> ELSE << >>)
         \o VisibleTexts(Tail(msgs), withEmpty)

\* C23 as stated: assistantTexts holds one entry for every ended assistant
\* message, its text with the thinking spans stripped, in arrival order.
C23_CollectedTextsMirrorMessages ==
  assistantTexts = VisibleTexts(endedMsgs, TRUE)

\* C23, amended: assistantTexts holds, in arrival order, the stripped text of
\* every ended assistant message whose stripped text is not empty; ended
\* messages of other roles, and assistant messages that strip to nothing,
\* add no entry.
C23_CollectedNonEmptyTexts ==
  assistantTexts = VisibleTexts(endedMsgs, FALSE)

\* "<think>X</think>" and "<THINK >X</ think> b" have ended: the first left
\* no entry, the second the entry " b".
C23_Witness ==
  /\ Len(endedMsgs) = 2
  /\ endedMsgs[1] = [role |-> "assistant", segs |-> OnlyThinking]
  /\ endedMsgs[2] = [role |-> "assistant", segs |-> SpacedMarkers]
  /\ assistantTexts = <<<<" ", "b">>>>

\* The cleaned text of a buffer: stripped of thinking spans, trimmed.
CleanedOf(buffer) ==
  CharsAt(buffer, TrimPositions(buffer, StripPositions(buffer)))

\* C21: an assistant notification and an onPartialReply delivery happen only
\* with the cleaned text of the rolling buffer, and only when that text differs
\* from the text of the previous emission; no two consecutive emissions carry
\* the same text.
C21_PartialReplyDeduplicated ==
  [][ /\ Len(telemetry') > Len(telemetry) =>
           /\ telemetry' = Append(telemetry, [stream |-> "assistant",
                                              text |-> CleanedOf(deltaBuffer')])
           /\ telemetry # << >> => telemetry[Len(telemetry)].text # CleanedOf(deltaBuffer')
           /\ agentEvents' =
                IF params.onAgentEvent
                  THEN Append(agentEvents, [stream |-> "assistant",
                                            text |-> CleanedOf(deltaBuffer')])
                  ELSE agentEvents
           /\ partialReplies' =
                IF params.onPartialReply
                  THEN Append(partialReplies, [text |-> CleanedOf(deltaBuffer')])
                  ELSE partialReplies
      /\ Len(telemetry') = Len(telemetry) =>
           /\ agentEvents' = agentEvents
           /\ partialReplies' = partialReplies
      /\ \A i \in 1..(Len(telemetry') - 1) :
           telemetry'[i].text # telemetry'[i + 1].text ]_vars

\* "a<think>XY" in two fragments: "a" was emitted for the first; the second
\* left the cleaned text at "a" and nothing was emitted for it.
C21_Witness ==
  /\ StreamedWhole /\ curMsg.role = "assistant" /\ curMsg.segs = OpenSpan
  /\ deltaCount = 2
  /\ CleanedBuffer = <<"a">>
  /\ telemetry = <<[stream |-> "assistant", text |-> <<"a">>]>>
  /\ params.onPartialReply /\ partialReplies = <<[text |-> <<"a">>]>>

\* An assistant message has ended before the current one.
AfterAssistantMessage ==
  \E i \in DOMAIN endedMsgs : endedMsgs[i].role = "assistant"

\* C22: for an assistant message that follows an ended assistant message,
\* every delta makes the bridge deliver to onPartialReply exactly what a
\* bridge attached at the start of that message delivers: the cleaned text
\* of the message so far when it is not empty and differs from what that
\* bridge delivered last, and nothing otherwise.
C22_NextMessageStartsClean ==
  [][ (/\ AfterAssistantMessage
       /\ curMsg.role = "assistant"
       /\ fed' > fed
       /\ params.onPartialReply)
      => LET cleaned == CleanedOf(deltaBuffer') IN
         partialReplies' =
           IF cleaned # << >> /\ Str(cleaned) # freshLast
             THEN Append(partialReplies, [text |-> cleaned])
             ELSE partialReplies ]_vars

\* The (toolName, meta) pairs of the aggregates delivered to onPartialReply,
\* in delivery order.
RECURSIVE EmittedPairs(_)
EmittedPairs(replies) ==
  IF replies = << >> THEN << >>
  ELSE (IF "aggregate" \in DOMAIN Head(replies)
          THEN Head(replies).aggregate ELSE << >>)
       \o EmittedPairs(Tail(replies))

\* C24: handling agent_end leaves the debounce queue empty and no timer
\* pending, whatever the timer state was, and with onPartialReply registered
\* it delivers the pairs that were pending as one aggregate (nothing when
\* none was pending); a timer is pending exactly while pairs are queued, so
\* no expiry follows a flush, every delivery carries the pairs pending
\* before it, and the delivered pairs followed by the queued ones are at
\* all times the pairs pushed by the tool-finished events, each once and in
\* order.
C24_RunEndFlushesQueue ==
  [][ /\ (toolEvents' = toolEvents + 1 /\ telemetry' = telemetry)
         => /\ pendingTools' = << >>
            /\ flushTimer' = "none"
            /\ partialReplies' =
                 IF params.onPartialReply /\ pendingTools # << >>
                   THEN Append(partialReplies, [aggregate |-> pendingTools])
                   ELSE partialReplies
      /\ (flushTimer' = "pending") <=> (pendingTools' # << >>)
      /\ partialReplies' # partialReplies
         => /\ pendingTools # << >>
            /\ pendingTools' = << >>
      /\ params.onPartialReply
         => EmittedPairs(partialReplies') \o pendingTools' = toolMetas' ]_vars

\* A run whose two finished tools were still queued, with the timer
\* pending, when agent_end delivered them as one aggregate.
C24_Witness ==
  /\ params.onPartialReply
  /\ toolEvents = 3
  /\ Len(toolMetas) = 2
  /\ toolMetas[1].toolName # toolMetas[2].toolName
  /\ partialReplies = <<[aggregate |-> toolMetas]>>
  /\ pendingTools = << >>
  /\ flushTimer = "none"

\* C25 as stated: on a tool-finished event with onToolResult registered,
\* the aggregate of the tool is delivered to onToolResult exactly when
\* verboseLevel is "on" or shouldEmitToolResult returns true.
C25_DeliveredByPolicyOrPredicate ==
  [][ (Len(toolMetas') = Len(toolMetas) + 1 /\ params.onToolResult # "absent")
      => ((Len(toolResults') = Len(toolResults) + 1)
          <=> (params.verboseLevel = "on"
               \/ params.shouldEmitToolResult = "true")) ]_vars

\* C25: on a tool-finished event with onToolResult registered, the
\* aggregate of the tool is delivered to onToolResult exactly when
\* shouldEmitToolResult is supplied and returns true, or is not supplied
\* and verboseLevel is "on"; a supplied predicate that returns false
\* prevents the delivery whatever verboseLevel is.
C25_PredicateOverridesPolicy ==
  [][ (Len(toolMetas') = Len(toolMetas) + 1 /\ params.onToolResult # "absent")
      => /\ (Len(toolResults') = Len(toolResults) + 1)
            <=> \/ params.shouldEmitToolResult = "true"
                \/ /\ params.shouldEmitToolResult = "absent"
                   /\ params.verboseLevel = "on"
         /\ Len(toolResults') \in {Len(toolResults), Len(toolResults) + 1} ]_vars

\* A tool has finished under verboseLevel "on" with a predicate that
\* returns false and a registered onToolResult: nothing was delivered.
C25_Witness ==
  /\ params.verboseLevel = "on"
  /\ params.shouldEmitToolResult = "false"
  /\ params.onToolResult # "absent"
  /\ Len(toolMetas) = 1
  /\ toolResults = << >>

====
